---------------------------- MODULE Spec2Model ----------------------------
(***************************************************************************)
(* Model of backend/tickets/llm_service.py: the keyword rule set (compiled *)
(* regular expressions and the helpers built on them) and one call of      *)
(* classify_ticket, with the Gemini client as a nondeterministic oracle.   *)
(*                                                                         *)
(* A description is a sequence of tokens.  A token is a maximal run of     *)
(* word characters (a word; the apostrophe of "can't" is kept inside the   *)
(* word), a maximal run of whitespace (" ") or a maximal run of other      *)
(* punctuation (",").  The regex anchors \b therefore fall exactly on the  *)
(* borders of word tokens.                                                 *)
(***************************************************************************)
EXTENDS Integers, Sequences, FiniteSets, TLC

\* Longest description, in tokens, drawn from Vocabulary.
MaxLen == 3

VARIABLES description, api_key, pc, oracle, result, oracleCalls, suggested

vars == <<description, api_key, pc, oracle, result, oracleCalls, suggested>>

-----------------------------------------------------------------------------
(* Text: tokens, case folding, str.strip()                                 *)

SpaceTok == " "
PunctTok == ","

IsWord(t) == t \notin {SpaceTok, PunctTok}

TokClass(t) == IF t = SpaceTok THEN "space" ELSE IF t = PunctTok THEN "punct" ELSE "word"

\* Words used to build the bounded descriptions: at least one trigger of
\* every keyword group, the pieces of the phrases "is down" and
\* "not urgent", and a capitalised word.
Vocabulary ==
    { "is", "down", "Outage", "not", "urgent", "minor", "blocking",
      "login", "refund", "api" }

Tokens == Vocabulary \cup {SpaceTok, PunctTok}

\* Adjacent tokens are maximal runs, so two neighbours never have the same class.
WellFormed(d) ==
    \A i \in 1..(Len(d) - 1) : TokClass(d[i]) # TokClass(d[i + 1])

BoundedDescriptions ==
    { d \in UNION { [1..n -> Tokens] : n \in 0..MaxLen } : WellFormed(d) }

\* re.IGNORECASE: matching compares case-folded text.
FoldCase(t) ==
    CASE t = "Outage" -> "outage"
      [] t = "I"      -> "i"
      [] t = "ASAP"   -> "asap"
      [] OTHER        -> t

\* description.strip() is empty: every token is whitespace.
StripIsEmpty(d) == \A i \in 1..Len(d) : d[i] = SpaceTok

-----------------------------------------------------------------------------
(* Regular expressions \b(alt1|alt2|...)\b over tokens                     *)

GAP == "<ws>"

\* One alternative: its words in order, and what stands between two words
\* ("star" for \s*, "plus" for \s+).
Alt(w, gap) == [w |-> w, gap |-> gap]
W(word) == Alt(<<word>>, "star")
Star(w) == Alt(w, "star")
Plus(w) == Alt(w, "plus")

\* The token shapes one alternative matches: between two words either a run
\* of whitespace or, under \s*, nothing at all (the words fuse into one).
RECURSIVE Forms(_, _)
Forms(w, gap) ==
    IF Len(w) = 1 THEN { <<w[1]>> }
    ELSE LET rest == Forms(Tail(w), gap)
             spaced == { <<w[1], GAP>> \o r : r \in rest }
             joined == IF gap = "star"
                       THEN { <<w[1] \o r[1]>> \o Tail(r) : r \in rest }
                       ELSE {}
         IN spaced \cup joined

re_compile(alts) == UNION { Forms(a.w, a.gap) : a \in alts }

\* First index at or after i that is not whitespace.
RECURSIVE SkipSpace(_, _)
SkipSpace(d, i) ==
    IF i <= Len(d) /\ d[i] = SpaceTok THEN SkipSpace(d, i + 1) ELSE i

\* Index just after a match of form f[j..] that starts at token i; 0 if none.
RECURSIVE MatchEnd(_, _, _, _)
MatchEnd(d, i, f, j) ==
    IF j > Len(f) THEN i
    ELSE IF i > Len(d) THEN 0
    ELSE IF f[j] = GAP
         THEN IF d[i] = SpaceTok THEN MatchEnd(d, SkipSpace(d, i), f, j + 1) ELSE 0
    ELSE IF IsWord(d[i]) /\ FoldCase(d[i]) = f[j]
         THEN MatchEnd(d, i + 1, f, j + 1)
    ELSE 0

re_search(pattern, d) ==
    \E f \in pattern : \E i \in 1..Len(d) : MatchEnd(d, i, f, 1) # 0

-----------------------------------------------------------------------------
(* Keyword rule set                                                        *)

TECHNICAL_KEYWORDS ==
    re_compile({ W("api"), W("webhook"), W("endpoint"), W("500"), W("502"),
                 W("503"), Star(<<"server", "error">>), W("integration"),
                 W("bug"), W("crash"), W("timeout"), W("logs") })

ACCOUNT_KEYWORDS ==
    re_compile({ W("login"), Star(<<"log", "in">>), W("password"),
                 Star(<<"reset", "password">>), W("unlock"), W("account"),
                 W("permission"), W("profile"), W("access"),
                 Star(<<"locked", "out">>) })

BILLING_KEYWORDS ==
    re_compile({ W("charge"), W("charged"), W("refund"), W("invoice"),
                 W("payment"), W("subscription"), W("billed"), W("billing"),
                 Star(<<"duplicate", "charge">>) })

OUTAGE_OR_DOWN_KEYWORDS ==
    re_compile({ W("outage"), Star(<<"system", "down">>),
                 Star(<<"platform", "down">>), Plus(<<"been", "down">>),
                 Plus(<<"is", "down">>), Plus(<<"full", "outage">>),
                 Star(<<"data", "loss">>), W("breach") })

CRITICAL_PRIORITY_KEYWORDS ==
    re_compile({ W("outage"), Star(<<"down", "for">>),
                 Star(<<"system", "down">>), Star(<<"platform", "down">>),
                 Plus(<<"been", "down">>), Plus(<<"full", "outage">>),
                 Star(<<"data", "loss">>), W("breach"),
                 Star(<<"security", "incident">>), W("urgent"), W("restore"),
                 W("backup") })

HIGH_PRIORITY_KEYWORDS ==
    re_compile({ Star(<<"no", "workaround">>), W("blocking"), W("deadline"),
                 Star(<<"can't", "access">>), Star(<<"cannot", "access">>),
                 Star(<<"as", "soon", "as", "possible">>),
                 Star(<<"critical", "deadline">>) })

LOW_PRIORITY_KEYWORDS ==
    re_compile({ W("minor"), W("cosmetic"), Star(<<"not", "urgent">>),
                 Star(<<"feature", "request">>),
                 Star(<<"would", "be", "nice">>), Star(<<"small", "issue">>) })

_suggested_priority_from_keywords(d) ==
    IF Len(d) = 0 THEN "medium"
    ELSE IF re_search(CRITICAL_PRIORITY_KEYWORDS, d) THEN "critical"
    ELSE IF re_search(HIGH_PRIORITY_KEYWORDS, d) THEN "high"
    ELSE IF re_search(LOW_PRIORITY_KEYWORDS, d) THEN "low"
    ELSE "medium"

_description_looks_technical(d) == Len(d) # 0 /\ re_search(TECHNICAL_KEYWORDS, d)

_description_looks_account(d) == Len(d) # 0 /\ re_search(ACCOUNT_KEYWORDS, d)

_description_looks_billing(d) == Len(d) # 0 /\ re_search(BILLING_KEYWORDS, d)

_description_looks_outage_or_system_down(d) ==
    Len(d) # 0 /\ re_search(OUTAGE_OR_DOWN_KEYWORDS, d)

-----------------------------------------------------------------------------
(* Inputs                                                                  *)

Tok(words) ==
    [i \in 1..(2 * Len(words) - 1) |->
        IF i % 2 = 1 THEN words[(i + 1) \div 2] ELSE SpaceTok]

ExampleLogin ==
    <<"I", " ", "can't", " ", "log", " ", "in", ",", " ", "it", " ", "says",
      " ", "invalid", " ", "password">>

ExampleCosmetic ==
    <<"minor", " ", "cosmetic", " ", "issue", " ", "with", " ", "the", " ",
      "button", " ", "color", ",", " ", "not", " ", "urgent">>

ExampleRefund ==
    <<"duplicate", " ", "charge", " ", "on", " ", "my", " ", "invoice", ",",
      " ", "please", " ", "refund", " ", "ASAP">>

ExampleCharged == Tok(<<"I", "was", "charged", "twice", "for", "my", "subscription">>)

\* Longer descriptions: the examples of the documentation and texts on
\* which several keyword groups match at once.
ExampleDescriptions ==
    { ExampleLogin, ExampleCosmetic, ExampleRefund, ExampleCharged,
      Tok(<<"login", "refund", "api">>),
      Tok(<<"refund", "api", "minor">>),
      Tok(<<"login", "api", "blocking">>),
      Tok(<<"login", "is", "down">>),
      Tok(<<"small", "issue", "please", "restore", "api">>),
      Tok(<<"feature", "request">>),
      Tok(<<"would", "be", "nice">>) }

Descriptions == BoundedDescriptions \cup ExampleDescriptions

\* settings.GOOGLE_API_KEY: unset/empty, or some key.
ApiKeys == {"", "key"}

-----------------------------------------------------------------------------
(* The oracle: what generate_content can produce                           *)

JNull == "<null>"      \* key missing, or JSON null
JNumber == "<number>"  \* a JSON value that is truthy and not a string

RawCategories ==
    {"billing", "technical", "account", "general", "Technical", "spam",
     JNull, JNumber}

RawPriorities == {"low", "medium", "high", "critical", "urgent", JNull}

\* "bare": the JSON text alone; "fenced": ```json {...} ```;
\* "unclosed": a ``` marker without the closing one.
Response(kind, fence, category, priority) ==
    [kind |-> kind, fence |-> fence, category |-> category, priority |-> priority]

NoResponse == Response("uncalled", "bare", JNull, JNull)

\* kind = "raise": genai.Client or generate_content raises.
\* kind = "none": response.text is None; "blank": only whitespace;
\* "garbage": text that is not JSON; "array": JSON that is not an object;
\* "object": a JSON object with the given category and priority values.
OracleOutcomes ==
    { Response(k, "bare", JNull, JNull) :
        k \in {"raise", "none", "blank", "garbage", "array"} }
    \cup
    { Response("object", f, c, p) :
        f \in {"bare", "fenced"}, c \in RawCategories, p \in RawPriorities }
    \cup
    { Response("object", "unclosed", "billing", "high") }

\* (response.text or '').strip()
TextIsEmpty(o) == o.kind \in {"none", "blank"}

\* The fence regex replaces the text by the braces inside a closed fence;
\* otherwise the text reaches json.loads as it is.
\* "error": json.loads raises; else the type of the parsed value.
json_loads(o) ==
    IF o.kind = "garbage" \/ o.fence = "unclosed" THEN "error"
    ELSE o.kind

\* v or ''
OrEmpty(v) == IF v = JNull THEN "" ELSE v

\* str.lower()
lower(s) == IF s = "Technical" THEN "technical" ELSE s

valid_categories == {"billing", "technical", "account", "general"}
valid_priorities == {"low", "medium", "high", "critical"}

\* Something between the call and the validity test raises: the call
\* itself, json.loads, .get on a non-dict, .lower() on a non-string.
TryRaises(o) ==
    \/ o.kind = "raise"
    \/ /\ ~TextIsEmpty(o)
       /\ \/ json_loads(o) # "object"
          \/ OrEmpty(o.category) = JNumber
          \/ OrEmpty(o.priority) = JNumber

ParsedCategory(o) == lower(OrEmpty(o.category))
ParsedPriority(o) == lower(OrEmpty(o.priority))

\* Variant: only the category is validated.
InvalidAnswerMut(category, priority) ==
    category \notin valid_categories

InvalidAnswer(category, priority) ==
    category \notin valid_categories \/ priority \notin valid_priorities

-----------------------------------------------------------------------------
(* classify_ticket                                                         *)

None == [absent |-> TRUE]

Suggestion(category, priority) ==
    [suggested_category |-> category, suggested_priority |-> priority]

\* Variant: billing is tested before account.
KeywordOnlyMut(d) ==
    LET pri == _suggested_priority_from_keywords(d) IN
    IF _description_looks_outage_or_system_down(d) THEN Suggestion("technical", "critical")
    ELSE IF _description_looks_billing(d) THEN Suggestion("billing", pri)
    ELSE IF _description_looks_account(d) THEN Suggestion("account", pri)
    ELSE IF _description_looks_technical(d) THEN Suggestion("technical", pri)
    ELSE Suggestion("general", pri)

\* The keyword-only answer of the branch without an API key.
KeywordOnly(d) ==
    LET pri == _suggested_priority_from_keywords(d) IN
    IF _description_looks_outage_or_system_down(d) THEN Suggestion("technical", "critical")
    ELSE IF _description_looks_account(d) THEN Suggestion("account", pri)
    ELSE IF _description_looks_billing(d) THEN Suggestion("billing", pri)
    ELSE IF _description_looks_technical(d) THEN Suggestion("technical", pri)
    ELSE Suggestion("general", pri)

\* Variant: the except clause gives up instead of using the keywords.
ExceptFallbackMut(d) == None

\* The keyword-only answer of the except clause.
ExceptFallback(d) ==
    LET pri == _suggested_priority_from_keywords(d) IN
    IF _description_looks_outage_or_system_down(d) THEN Suggestion("technical", "critical")
    ELSE IF _description_looks_account(d) THEN Suggestion("account", pri)
    ELSE IF _description_looks_billing(d) THEN Suggestion("billing", pri)
    ELSE IF _description_looks_technical(d) THEN Suggestion("technical", pri)
    ELSE Suggestion("general", pri)

\* Variant: billing overrides technical even when the text looks technical.
CorrectCategoryMut(category, d) ==
    LET c1 == IF category = "technical"
              THEN IF _description_looks_account(d) /\ ~_description_looks_technical(d)
                   THEN "account"
                   ELSE IF _description_looks_billing(d)
                        THEN "billing"
                        ELSE category
              ELSE IF category = "general" /\ _description_looks_technical(d)
                   THEN "technical"
                   ELSE category
    IN IF _description_looks_outage_or_system_down(d) THEN "technical" ELSE c1

CorrectCategory(category, d) ==
    LET c1 == IF category = "technical"
              THEN IF _description_looks_account(d) /\ ~_description_looks_technical(d)
                   THEN "account"
                   ELSE IF _description_looks_billing(d) /\ ~_description_looks_technical(d)
                        THEN "billing"
                        ELSE category
              ELSE IF category = "general" /\ _description_looks_technical(d)
                   THEN "technical"
                   ELSE category
    IN IF _description_looks_outage_or_system_down(d) THEN "technical" ELSE c1

CorrectPriority(priority, d) ==
    LET keyword_priority == _suggested_priority_from_keywords(d)
        p1 == IF priority = "medium" /\ keyword_priority # "medium"
              THEN keyword_priority
              ELSE priority
    IN IF _description_looks_outage_or_system_down(d) THEN "critical" ELSE p1

IsBlank(d) == Len(d) = 0 \/ StripIsEmpty(d)

Init ==
    /\ description \in Descriptions
    /\ api_key \in ApiKeys
    /\ pc = "start"
    /\ oracle = NoResponse
    /\ result = None
    /\ oracleCalls = 0
    /\ suggested = ""

Return(value) ==
    /\ result' = value
    /\ pc' = "done"

\* if not description or not description.strip(): return None
EmptyGuard ==
    /\ pc = "start"
    /\ IsBlank(description)
    /\ Return(None)
    /\ UNCHANGED <<description, api_key, oracle, oracleCalls, suggested>>

\* Variant: the short-circuit takes the priority from the keywords.
OutageShortCircuitMut ==
    /\ pc = "start"
    /\ ~IsBlank(description)
    /\ _description_looks_outage_or_system_down(description)
    /\ Return(Suggestion("technical", _suggested_priority_from_keywords(description)))
    /\ UNCHANGED <<description, api_key, oracle, oracleCalls, suggested>>

\* Outage/down: technical + critical before any LLM call.
OutageShortCircuit ==
    /\ pc = "start"
    /\ ~IsBlank(description)
    /\ _description_looks_outage_or_system_down(description)
    /\ Return(Suggestion("technical", "critical"))
    /\ UNCHANGED <<description, api_key, oracle, oracleCalls, suggested>>

\* if not api_key: keyword fallbacks only.
NoKeyFallback ==
    /\ pc = "start"
    /\ ~IsBlank(description)
    /\ ~_description_looks_outage_or_system_down(description)
    /\ api_key = ""
    /\ Return(KeywordOnly(description))
    /\ UNCHANGED <<description, api_key, oracle, oracleCalls, suggested>>

\* Variant: the oracle is called without looking at the API key.
CallOracleMut ==
    /\ pc = "start"
    /\ ~IsBlank(description)
    /\ ~_description_looks_outage_or_system_down(description)
    /\ \E o \in OracleOutcomes : oracle' = o
    /\ oracleCalls' = oracleCalls + 1
    /\ pc' = "called"
    /\ UNCHANGED <<description, api_key, result, suggested>>

\* The try block up to the oracle's answer (or its failure).
CallOracle ==
    /\ pc = "start"
    /\ ~IsBlank(description)
    /\ ~_description_looks_outage_or_system_down(description)
    /\ api_key # ""
    /\ \E o \in OracleOutcomes : oracle' = o
    /\ oracleCalls' = oracleCalls + 1
    /\ pc' = "called"
    /\ UNCHANGED <<description, api_key, result, suggested>>

\* if not text: return None
EmptyResponse ==
    /\ pc = "called"
    /\ ~TryRaises(oracle)
    /\ TextIsEmpty(oracle)
    /\ Return(None)
    /\ UNCHANGED <<description, api_key, oracle, oracleCalls, suggested>>

\* if category not in valid_categories or priority not in valid_priorities: return None
RejectAnswer ==
    /\ pc = "called"
    /\ ~TryRaises(oracle)
    /\ ~TextIsEmpty(oracle)
    /\ InvalidAnswer(ParsedCategory(oracle), ParsedPriority(oracle))
    /\ Return(None)
    /\ UNCHANGED <<description, api_key, oracle, oracleCalls, suggested>>

\* The overrides, then the corrected pair.
ReturnCorrected ==
    /\ pc = "called"
    /\ ~TryRaises(oracle)
    /\ ~TextIsEmpty(oracle)
    /\ ~InvalidAnswer(ParsedCategory(oracle), ParsedPriority(oracle))
    /\ Return(Suggestion(CorrectCategory(ParsedCategory(oracle), description),
                         CorrectPriority(ParsedPriority(oracle), description)))
    /\ UNCHANGED <<description, api_key, oracle, oracleCalls, suggested>>

\* except Exception: log, then the keyword answer.
ExceptHandler ==
    /\ pc = "called"
    /\ TryRaises(oracle)
    /\ Return(ExceptFallback(description))
    /\ UNCHANGED <<description, api_key, oracle, oracleCalls, suggested>>

Next ==
    \/ EmptyGuard
    \/ OutageShortCircuit
    \/ NoKeyFallback
    \/ CallOracle
    \/ EmptyResponse
    \/ RejectAnswer
    \/ ReturnCorrected
    \/ ExceptHandler

Spec == Init /\ [][Next]_vars

-----------------------------------------------------------------------------
(* Properties                                                              *)

Done == pc = "done"

\* The oracle was asked and gave a usable answer (c, p).
ValidOracleAnswer ==
    /\ oracleCalls = 1
    /\ ~TryRaises(oracle)
    /\ ~TextIsEmpty(oracle)
    /\ ParsedCategory(oracle) \in valid_categories
    /\ ParsedPriority(oracle) \in valid_priorities

\* C1: a non-blank description on which the outage/down group matches is
\* classified (technical, critical), with or without an API key and
\* whatever else the text contains.
C1_OutageIsTechnicalCritical ==
    (Done /\ ~IsBlank(description)
          /\ _description_looks_outage_or_system_down(description))
        => result = Suggestion("technical", "critical")

C1_Witness ==
    /\ Done
    /\ api_key # ""
    /\ re_search(OUTAGE_OR_DOWN_KEYWORDS, description)
    /\ re_search(ACCOUNT_KEYWORDS, description)
    /\ ~re_search(CRITICAL_PRIORITY_KEYWORDS, description)
    /\ result = Suggestion("technical", "critical")

\* C2: classify_ticket returns None if and only if the description is
\* empty or whitespace-only.
C2_NoneIffBlank ==
    Done => (result = None <=> IsBlank(description))

\* The three ways an oracle response is invalid: it does not parse as a
\* JSON object, it is empty, or a value lies outside the enumerations.
InvalidResponse(o) ==
    /\ o.kind # "raise"
    /\ \/ TextIsEmpty(o)
       \/ json_loads(o) # "object"
       \/ lower(OrEmpty(o.category)) \notin valid_categories
       \/ lower(OrEmpty(o.priority)) \notin valid_priorities

\* C3: on the oracle path an invalid oracle response yields exactly the
\* keyword-only answer for the same description.
C3_InvalidResponseFallsBack ==
    (Done /\ oracleCalls = 1 /\ InvalidResponse(oracle))
        => result = KeywordOnly(description)

C5_ResultInEnumerations ==
    Done => \/ result = None
            \/ /\ result.suggested_category \in valid_categories
               /\ result.suggested_priority \in valid_priorities

C5_Witness ==
    /\ Done
    /\ oracle.kind = "object"
    /\ ParsedCategory(oracle) \in valid_categories
    /\ ParsedPriority(oracle) = "urgent"
    /\ result = None

\* C6: without an API key, a non-blank non-outage description gets the
\* first of account, billing, technical that matches, else general, with
\* the keyword priority.
C6_NoKeyPrecedence ==
    (Done /\ api_key = "" /\ ~IsBlank(description)
          /\ ~_description_looks_outage_or_system_down(description))
        => /\ result.suggested_category =
                 IF re_search(ACCOUNT_KEYWORDS, description) THEN "account"
                 ELSE IF re_search(BILLING_KEYWORDS, description) THEN "billing"
                 ELSE IF re_search(TECHNICAL_KEYWORDS, description) THEN "technical"
                 ELSE "general"
           /\ result.suggested_priority =
                 _suggested_priority_from_keywords(description)
           /\ description = ExampleLogin
                 => result = Suggestion("account", "medium")
           /\ description = ExampleRefund
                 => result = Suggestion("billing", "medium")

C6_Witness ==
    /\ Done
    /\ api_key = ""
    /\ re_search(ACCOUNT_KEYWORDS, description)
    /\ re_search(BILLING_KEYWORDS, description)
    /\ re_search(TECHNICAL_KEYWORDS, description)
    /\ result = Suggestion("account", "medium")

\* Every place where a Critical or High term matches lies inside a match
\* of a Low term, and some Low term matches.
Covered(d, i, e) ==
    \E g \in LOW_PRIORITY_KEYWORDS : \E s \in 1..i :
        MatchEnd(d, s, g, 1) # 0 /\ e <= MatchEnd(d, s, g, 1)

OnlyLowPhrases(d) ==
    /\ re_search(LOW_PRIORITY_KEYWORDS, d)
    /\ \A f \in CRITICAL_PRIORITY_KEYWORDS \cup HIGH_PRIORITY_KEYWORDS :
          \A i \in 1..Len(d) :
             MatchEnd(d, i, f, 1) # 0 => Covered(d, i, MatchEnd(d, i, f, 1))

\* C7: without an API key, a description whose only priority phrases are
\* Low-tier phrases and which matches no category or outage keyword is
\* classified (general, low).
C7_LowPhrasesGiveGeneralLow ==
    (Done /\ api_key = "" /\ OnlyLowPhrases(description)
          /\ ~re_search(ACCOUNT_KEYWORDS, description)
          /\ ~re_search(BILLING_KEYWORDS, description)
          /\ ~re_search(TECHNICAL_KEYWORDS, description)
          /\ ~re_search(OUTAGE_OR_DOWN_KEYWORDS, description))
        => result = Suggestion("general", "low")

\* C8: the keyword priority is critical whenever the outage/down group
\* matches, and in general is the first tier of critical, high, low whose
\* terms match, else medium.
C8_CriticalCoversOutage ==
    pc = "suggested"
        => /\ _description_looks_outage_or_system_down(description)
                 => suggested = "critical"
           /\ suggested =
                 IF re_search(CRITICAL_PRIORITY_KEYWORDS, description) THEN "critical"
                 ELSE IF re_search(HIGH_PRIORITY_KEYWORDS, description) THEN "high"
                 ELSE IF re_search(LOW_PRIORITY_KEYWORDS, description) THEN "low"
                 ELSE "medium"

\* C9: a valid oracle answer (c, p) for a non-outage description is
\* returned with c changed only from technical to account or billing or
\* from general to technical, and p changed only from medium to a
\* non-medium keyword priority.
C9_Corrections ==
    (Done /\ ValidOracleAnswer)
        => LET c == ParsedCategory(oracle)
               p == ParsedPriority(oracle)
               acc == re_search(ACCOUNT_KEYWORDS, description)
               bil == re_search(BILLING_KEYWORDS, description)
               tec == re_search(TECHNICAL_KEYWORDS, description)
               kw == _suggested_priority_from_keywords(description)
           IN /\ result.suggested_category =
                    IF c = "technical" /\ acc /\ ~tec THEN "account"
                    ELSE IF c = "technical" /\ bil /\ ~acc /\ ~tec THEN "billing"
                    ELSE IF c = "general" /\ tec THEN "technical"
                    ELSE c
              /\ result.suggested_priority =
                    IF p = "medium" /\ kw # "medium" THEN kw ELSE p
              /\ (description = ExampleCharged /\ c = "technical" /\ p = "medium")
                    => result = Suggestion("billing", "medium")

C9_Witness ==
    /\ Done
    /\ ValidOracleAnswer
    /\ description = ExampleCharged
    /\ oracle = Response("object", "fenced", "Technical", "medium")
    /\ result = Suggestion("billing", "medium")

\* C10: the oracle is asked at most once per call, and never for a blank
\* description, an outage description or a call without an API key.
C10_OracleAtMostOnce ==
    /\ oracleCalls <= 1
    /\ (IsBlank(description)
          \/ _description_looks_outage_or_system_down(description)
          \/ api_key = "")
        => (oracleCalls = 0 /\ oracle = NoResponse /\ pc # "called")

C10_Witness ==
    /\ Done
    /\ oracleCalls = 1
    /\ oracle.kind \in {"raise", "garbage"}
    /\ result # None

TypeOK ==
    /\ description \in Descriptions
    /\ api_key \in ApiKeys
    /\ pc \in {"start", "called", "done", "suggested"}
    /\ oracle \in OracleOutcomes \cup {NoResponse}
    /\ oracleCalls \in 0..1
    /\ suggested \in valid_priorities \cup {""}

-----------------------------------------------------------------------------
(* The priority helper called on its own                                   *)

SuggestPriority ==
    /\ pc = "start"
    /\ suggested' = _suggested_priority_from_keywords(description)
    /\ pc' = "suggested"
    /\ UNCHANGED <<description, api_key, oracle, result, oracleCalls>>

NextKw == SuggestPriority

SpecKw == Init /\ [][NextKw]_vars

=============================================================================
